---- MODULE Spec2Model ----
(***************************************************************************)
(* Substrate state RPC (client/rpc/src/state/mod.rs): the dispatch surface *)
(* of State / ChildState and the runtime-version watch of                  *)
(* SubscriptionSinks::subscribe.                                           *)
(***************************************************************************)
EXTENDS Integers, Sequences, FiniteSets, TLC

VARIABLES
    deny_unsafe,    \* State.deny_unsafe, fixed at construction
    backend,        \* State.backend: the full or the light implementation
    request,        \* the request handled last: [method, params]
    response,       \* the response given to it
    calls,          \* the backend operations invoked while handling it
    pc,             \* where SubscriptionSinks::subscribe stands
    best_version,   \* runtime version at client.info().best_hash
    previous_version, \* the closure's previous_version
    registered,     \* the storage-changes notification stream exists
    feed,           \* "open" or "closed": the sending side of the stream
    stream,         \* notifications pushed and not yet consumed
    subscribers,    \* clients subscribed to state_runtimeVersion
    sent,           \* every runtime_version_sink.send so far, in order
    ticks,          \* every notification the closure has processed, in order
    imported,       \* number of blocks imported so far
    changes,        \* the versions the best block took since the watch first read it
    endPolls,       \* polls of the stream after it ended
    chain,          \* the storage of the requested keys at each block, oldest first
    trie,           \* the entries of one block's state, by key
    last_op,        \* the backend operation run last, with its input and output
    storage_subs,   \* clients subscribed to state_storage, each with its key set
    storage_blocks, \* the imported blocks that changed a key a subscriber watches
    storage_sent    \* every send on the state_storage sink so far, in order

dispatchVars == <<deny_unsafe, backend, request, response, calls>>

storeVars == <<chain, trie, last_op>>

storageSubVars == <<storage_subs, storage_blocks, storage_sent>>

watchVars == <<pc, best_version, previous_version, registered, feed, stream,
               subscribers, sent, ticks, imported, changes, endPolls>>

vars == <<deny_unsafe, backend, request, response, calls, pc, best_version,
          previous_version, registered, feed, stream, subscribers, sent, ticks, imported,
          changes, endPolls, chain, trie, last_op, storage_subs, storage_blocks,
          storage_sent>>

(***************************************************************************)
(* Program constants and bounds                                            *)
(***************************************************************************)
STORAGE_KEYS_PAGED_MAX_COUNT == 1000

\* counts up to STORAGE_KEYS_PAGED_MAX_COUNT + MaxOver are requested
MaxOver == 2

\* runtime versions are 0 .. MaxVersion
MaxVersion == 1

\* blocks imported while the watch runs
MaxImports == 2

\* clients of the state_runtimeVersion subscription
MaxClients == 1

\* polls of the ended stream that are followed
MaxEndPolls == 2

\* stored values are 0 .. MaxLen bytes long
MaxLen == 3

\* blocks in the chain a historical query walks
MaxChain == 3

Hashes == {"h1"}
OptBlocks == {"None"} \cup Hashes
Keys == {"k1", "k2"}
OptKeys == {"None"} \cup Keys
Counts == {0, 1, STORAGE_KEYS_PAGED_MAX_COUNT - 1}
            \cup (STORAGE_KEYS_PAGED_MAX_COUNT .. STORAGE_KEYS_PAGED_MAX_COUNT + MaxOver)

\* what a backend operation returns: a value or one of the domain errors
BackendOutcomes == {"Ok", "UnknownBlock", "Client", "DecodeError"}

(***************************************************************************)
(* Responses                                                               *)
(***************************************************************************)
NoCall == <<>>

InvalidParams == [kind |-> "InvalidParams", of |-> "none", err |-> "none", value |-> 0, max |-> 0]

UnsafeRpcError == [kind |-> "Unsafe", of |-> "none", err |-> "none", value |-> 0, max |-> 0]

InvalidCount(v, m) == [kind |-> "InvalidCount", of |-> "none", err |-> "none", value |-> v, max |-> m]

\* to_jsonrpsee_call_error: a backend error becomes CallError::Failed(err)
to_jsonrpsee_call_error(op, e) == [kind |-> "Failed", of |-> op, err |-> e, value |-> 0, max |-> 0]

\* block_on(backend.op(..)).map_err(to_jsonrpsee_call_error)
BackendReply(op, r) ==
    IF r = "Ok"
    THEN [kind |-> "Ok", of |-> op, err |-> "none", value |-> 0, max |-> 0]
    ELSE to_jsonrpsee_call_error(op, r)

\* DenyUnsafe::check_if_safe
check_if_safe(d) == IF d = "Yes" THEN "Err" ELSE "Ok"

\* params.parse(): the decoded tuple, or an error for malformed parameters
parse(p) == IF p.wf THEN [tag |-> "Ok", v |-> p] ELSE [tag |-> "Err", v |-> p]

\* params.one().ok(): the decoded value, None when decoding fails
one_ok(p) == IF p.wf THEN p.block ELSE "None"

\* one backend invocation with its arguments
Invoke(op, args) == [op |-> op, args |-> args]

\* a reply that leaves the service accepting unsafe calls from then on
Reply_flips_policy(m, p, resp, cs) ==
    /\ request' = [method |-> m, params |-> p]
    /\ response' = resp
    /\ calls' = cs
    /\ deny_unsafe' = "No"
    /\ UNCHANGED backend
    /\ UNCHANGED watchVars
    /\ UNCHANGED storeVars
    /\ UNCHANGED storageSubVars

Reply(m, p, resp, cs) ==
    /\ request' = [method |-> m, params |-> p]
    /\ response' = resp
    /\ calls' = cs
    /\ UNCHANGED <<deny_unsafe, backend>>
    /\ UNCHANGED watchVars
    /\ UNCHANGED storeVars
    /\ UNCHANGED storageSubVars

(***************************************************************************)
(* Parameters as the client sends them: wf is whether they decode          *)
(***************************************************************************)
ParamsCall == [wf : BOOLEAN, method : {"m"}, data : {"d"}, block : OptBlocks]
ParamsKey == [wf : BOOLEAN, key : Keys, block : OptBlocks]
ParamsPaged == [wf : BOOLEAN, prefix : OptKeys, count : Counts, start_key : OptKeys, block : OptBlocks]
ParamsBlock == [wf : BOOLEAN, block : OptBlocks]
ParamsQuery == [wf : BOOLEAN, keys : Keys, from : Hashes, to : OptBlocks]
ParamsQueryAt == [wf : BOOLEAN, keys : Keys, at : OptBlocks]
ParamsTrace == [wf : BOOLEAN, block : Hashes, targets : {"None", "t"}, storage_keys : {"None", "s"}]
ParamsChild == [wf : BOOLEAN, storage_key : {"c1"}, key : Keys, block : OptBlocks]

(***************************************************************************)
(* State::into_rpc_module: one handler per registered method               *)
(***************************************************************************)
\* state_call calling the backend a second time when the first call fails
state_call_retries(p, r) ==
    IF parse(p).tag = "Err"
    THEN Reply("state_call", p, InvalidParams, NoCall)
    ELSE LET c == Invoke("call", [block |-> p.block, method |-> p.method,
                                  call_data |-> p.data])
         IN Reply("state_call", p, BackendReply("call", r),
                  IF r = "Ok" THEN <<c>> ELSE <<c, c>>)

state_call(p, r) ==
    IF parse(p).tag = "Err"
    THEN Reply("state_call", p, InvalidParams, NoCall)
    ELSE Reply("state_call", p, BackendReply("call", r),
               <<Invoke("call", [block |-> p.block, method |-> p.method, call_data |-> p.data])>>)

\* state_getKeys with a check_if_safe line
state_getKeys_gated(p, r) ==
    IF check_if_safe(deny_unsafe) = "Err"
    THEN Reply("state_getKeys", p, UnsafeRpcError, NoCall)
    ELSE IF parse(p).tag = "Err"
    THEN Reply("state_getKeys", p, InvalidParams, NoCall)
    ELSE Reply("state_getKeys", p, BackendReply("storage_keys", r),
               <<Invoke("storage_keys", [block |-> p.block, prefix |-> p.key])>>)

state_getKeys(p, r) ==
    IF parse(p).tag = "Err"
    THEN Reply("state_getKeys", p, InvalidParams, NoCall)
    ELSE Reply("state_getKeys", p, BackendReply("storage_keys", r),
               <<Invoke("storage_keys", [block |-> p.block, prefix |-> p.key])>>)

\* state_getPairs without its check_if_safe line
state_getPairs_unchecked(p, r) ==
    IF parse(p).tag = "Err"
    THEN Reply("state_getPairs", p, InvalidParams, NoCall)
    ELSE Reply("state_getPairs", p, BackendReply("storage_pairs", r),
               <<Invoke("storage_pairs", [block |-> p.block, prefix |-> p.key])>>)

\* state_getPairs checking the policy only after the backend has run
state_getPairs_gate_after_call(p, r) ==
    IF parse(p).tag = "Err"
    THEN Reply("state_getPairs", p, InvalidParams, NoCall)
    ELSE IF check_if_safe(deny_unsafe) = "Err"
    THEN Reply("state_getPairs", p, UnsafeRpcError,
               <<Invoke("storage_pairs", [block |-> p.block, prefix |-> p.key])>>)
    ELSE Reply("state_getPairs", p, BackendReply("storage_pairs", r),
               <<Invoke("storage_pairs", [block |-> p.block, prefix |-> p.key])>>)

state_getPairs(p, r) ==
    IF check_if_safe(deny_unsafe) = "Err"
    THEN Reply("state_getPairs", p, UnsafeRpcError, NoCall)
    ELSE IF parse(p).tag = "Err"
    THEN Reply("state_getPairs", p, InvalidParams, NoCall)
    ELSE Reply("state_getPairs", p, BackendReply("storage_pairs", r),
               <<Invoke("storage_pairs", [block |-> p.block, prefix |-> p.key])>>)

\* state_getKeysPaged without the count check
state_getKeysPaged_unbounded(p, r) ==
    IF parse(p).tag = "Err"
    THEN Reply("state_getKeysPaged", p, InvalidParams, NoCall)
    ELSE Reply("state_getKeysPaged", p, BackendReply("storage_keys_paged", r),
               <<Invoke("storage_keys_paged",
                        [block |-> p.block, prefix |-> p.prefix,
                         count |-> p.count, start_key |-> p.start_key])>>)

\* state_getKeysPaged with count >= MAX rejected
state_getKeysPaged_exclusive(p, r) ==
    IF parse(p).tag = "Err"
    THEN Reply("state_getKeysPaged", p, InvalidParams, NoCall)
    ELSE IF p.count >= STORAGE_KEYS_PAGED_MAX_COUNT
    THEN Reply("state_getKeysPaged", p,
               InvalidCount(p.count, STORAGE_KEYS_PAGED_MAX_COUNT), NoCall)
    ELSE Reply("state_getKeysPaged", p, BackendReply("storage_keys_paged", r),
               <<Invoke("storage_keys_paged",
                        [block |-> p.block, prefix |-> p.prefix,
                         count |-> p.count, start_key |-> p.start_key])>>)

state_getKeysPaged(p, r) ==
    IF parse(p).tag = "Err"
    THEN Reply("state_getKeysPaged", p, InvalidParams, NoCall)
    ELSE IF p.count > STORAGE_KEYS_PAGED_MAX_COUNT
    THEN Reply("state_getKeysPaged", p,
               InvalidCount(p.count, STORAGE_KEYS_PAGED_MAX_COUNT), NoCall)
    ELSE Reply("state_getKeysPaged", p, BackendReply("storage_keys_paged", r),
               <<Invoke("storage_keys_paged",
                        [block |-> p.block, prefix |-> p.prefix,
                         count |-> p.count, start_key |-> p.start_key])>>)

state_getStorage(p, r) ==
    IF parse(p).tag = "Err"
    THEN Reply("state_getStorage", p, InvalidParams, NoCall)
    ELSE Reply("state_getStorage", p, BackendReply("storage", r),
               <<Invoke("storage", [block |-> p.block, key |-> p.key])>>)

\* the handler of state_getStorageHash calls backend.storage (mod.rs:270)
state_getStorageHash(p, r) ==
    IF parse(p).tag = "Err"
    THEN Reply("state_getStorageHash", p, InvalidParams, NoCall)
    ELSE Reply("state_getStorageHash", p, BackendReply("storage", r),
               <<Invoke("storage", [block |-> p.block, key |-> p.key])>>)

state_getStorageSize(p, r) ==
    IF parse(p).tag = "Err"
    THEN Reply("state_getStorageSize", p, InvalidParams, NoCall)
    ELSE Reply("state_getStorageSize", p, BackendReply("storage_size", r),
               <<Invoke("storage_size", [block |-> p.block, key |-> p.key])>>)

\* params.one().ok(): parameters that do not decode are taken as "no block"
state_getMetadata(p, r) ==
    Reply("state_getMetadata", p, BackendReply("metadata", r),
          <<Invoke("metadata", [block |-> one_ok(p)])>>)

state_getRuntimeVersion(p, r) ==
    IF check_if_safe(deny_unsafe) = "Err"
    THEN Reply("state_getRuntimeVersion", p, UnsafeRpcError, NoCall)
    ELSE Reply("state_getRuntimeVersion", p, BackendReply("runtime_version", r),
               <<Invoke("runtime_version", [block |-> one_ok(p)])>>)

\* state_queryStorage decoding its parameters before the check_if_safe line
state_queryStorage_parse_first(p, r) ==
    IF parse(p).tag = "Err"
    THEN Reply("state_queryStorage", p, InvalidParams, NoCall)
    ELSE IF check_if_safe(deny_unsafe) = "Err"
    THEN Reply("state_queryStorage", p, UnsafeRpcError, NoCall)
    ELSE Reply("state_queryStorage", p, BackendReply("query_storage", r),
               <<Invoke("query_storage", [from |-> p.from, to |-> p.to, keys |-> p.keys])>>)

state_queryStorage(p, r) ==
    IF check_if_safe(deny_unsafe) = "Err"
    THEN Reply("state_queryStorage", p, UnsafeRpcError, NoCall)
    ELSE IF parse(p).tag = "Err"
    THEN Reply("state_queryStorage", p, InvalidParams, NoCall)
    ELSE Reply("state_queryStorage", p, BackendReply("query_storage", r),
               <<Invoke("query_storage", [from |-> p.from, to |-> p.to, keys |-> p.keys])>>)

state_queryStorageAt(p, r) ==
    IF check_if_safe(deny_unsafe) = "Err"
    THEN Reply("state_queryStorageAt", p, UnsafeRpcError, NoCall)
    ELSE IF parse(p).tag = "Err"
    THEN Reply("state_queryStorageAt", p, InvalidParams, NoCall)
    ELSE Reply("state_queryStorageAt", p, BackendReply("query_storage_at", r),
               <<Invoke("query_storage_at", [keys |-> p.keys, at |-> p.at])>>)

state_getReadProof(p, r) ==
    IF check_if_safe(deny_unsafe) = "Err"
    THEN Reply("state_getReadProof", p, UnsafeRpcError, NoCall)
    ELSE IF parse(p).tag = "Err"
    THEN Reply("state_getReadProof", p, InvalidParams, NoCall)
    ELSE Reply("state_getReadProof", p, BackendReply("read_proof", r),
               <<Invoke("read_proof", [block |-> p.block, keys |-> p.key])>>)

state_traceBlock(p, r) ==
    IF check_if_safe(deny_unsafe) = "Err"
    THEN Reply("state_traceBlock", p, UnsafeRpcError, NoCall)
    ELSE IF parse(p).tag = "Err"
    THEN Reply("state_traceBlock", p, InvalidParams, NoCall)
    ELSE Reply("state_traceBlock", p, BackendReply("trace_block", r),
               <<Invoke("trace_block", [block |-> p.block, targets |-> p.targets,
                                        storage_keys |-> p.storage_keys])>>)

(***************************************************************************)
(* ChildState::into_rpc_module                                             *)
(***************************************************************************)
childstate_getStorage(p, r) ==
    IF parse(p).tag = "Err"
    THEN Reply("childstate_getStorage", p, InvalidParams, NoCall)
    ELSE Reply("childstate_getStorage", p, BackendReply("child_storage", r),
               <<Invoke("child_storage",
                        [block |-> p.block, storage_key |-> p.storage_key, key |-> p.key])>>)

childstate_getKeys(p, r) ==
    IF parse(p).tag = "Err"
    THEN Reply("childstate_getKeys", p, InvalidParams, NoCall)
    ELSE Reply("childstate_getKeys", p, BackendReply("child_storage_keys", r),
               <<Invoke("child_storage_keys",
                        [block |-> p.block, storage_key |-> p.storage_key, prefix |-> p.key])>>)

childstate_getStorageHash(p, r) ==
    IF parse(p).tag = "Err"
    THEN Reply("childstate_getStorageHash", p, InvalidParams, NoCall)
    ELSE Reply("childstate_getStorageHash", p, BackendReply("child_storage_hash", r),
               <<Invoke("child_storage_hash",
                        [block |-> p.block, storage_key |-> p.storage_key, key |-> p.key])>>)

childstate_getStorageSize(p, r) ==
    IF parse(p).tag = "Err"
    THEN Reply("childstate_getStorageSize", p, InvalidParams, NoCall)
    ELSE Reply("childstate_getStorageSize", p, BackendReply("child_storage_size", r),
               <<Invoke("child_storage_size",
                        [block |-> p.block, storage_key |-> p.storage_key, key |-> p.key])>>)

(***************************************************************************)
(* The dispatch surface as a state machine                                 *)
(***************************************************************************)
NoRequest == [method |-> "none", params |-> [wf |-> TRUE]]

\* new_full / new_light: deny_unsafe is given at construction
InitDispatch ==
    /\ deny_unsafe \in {"Yes", "No"}
    /\ backend \in {"full", "light"}
    /\ request = NoRequest
    /\ response = [kind |-> "none", of |-> "none", err |-> "none", value |-> 0, max |-> 0]
    /\ calls = NoCall

NextDispatch ==
    \/ \E p \in ParamsCall, r \in BackendOutcomes : state_call(p, r)
    \/ \E p \in ParamsKey, r \in BackendOutcomes : state_getKeys(p, r)
    \/ \E p \in ParamsKey, r \in BackendOutcomes : state_getPairs(p, r)
    \/ \E p \in ParamsPaged, r \in BackendOutcomes : state_getKeysPaged(p, r)
    \/ \E p \in ParamsKey, r \in BackendOutcomes : state_getStorage(p, r)
    \/ \E p \in ParamsKey, r \in BackendOutcomes : state_getStorageHash(p, r)
    \/ \E p \in ParamsKey, r \in BackendOutcomes : state_getStorageSize(p, r)
    \/ \E p \in ParamsBlock, r \in BackendOutcomes : state_getMetadata(p, r)
    \/ \E p \in ParamsBlock, r \in BackendOutcomes : state_getRuntimeVersion(p, r)
    \/ \E p \in ParamsQuery, r \in BackendOutcomes : state_queryStorage(p, r)
    \/ \E p \in ParamsQueryAt, r \in BackendOutcomes : state_queryStorageAt(p, r)
    \/ \E p \in ParamsKey, r \in BackendOutcomes : state_getReadProof(p, r)
    \/ \E p \in ParamsTrace, r \in BackendOutcomes : state_traceBlock(p, r)
    \/ \E p \in ParamsChild, r \in BackendOutcomes : childstate_getStorage(p, r)
    \/ \E p \in ParamsChild, r \in BackendOutcomes : childstate_getKeys(p, r)
    \/ \E p \in ParamsChild, r \in BackendOutcomes : childstate_getStorageHash(p, r)
    \/ \E p \in ParamsChild, r \in BackendOutcomes : childstate_getStorageSize(p, r)

(***************************************************************************)
(* The runtime-version watch: SubscriptionSinks::subscribe, the node that  *)
(* imports blocks and feeds it, and the clients of the subscription        *)
(***************************************************************************)
Versions == 0 .. MaxVersion
NoVersion == -1
Clients == 1 .. MaxClients

\* a sink that pushes to every client, subscribed or not
Send_to_all(v, ok, initial) ==
    Append(sent, [version |-> v, ok |-> ok, initial |-> initial,
                  to |-> IF ok THEN Clients ELSE {}])

\* runtime_version_sink.send(&version): the sink serialises the version and
\* pushes it to every client subscribed at that moment; ok is its result
Send(v, ok, initial) ==
    Append(sent, [version |-> v, ok |-> ok, initial |-> initial,
                  to |-> IF ok THEN subscribers ELSE {}])

\* a start that leaves the first send for later
SubscribeStart_send_later(version_ok, send_ok) ==
    /\ pc = "Starting"
    /\ IF ~version_ok
       THEN /\ pc' = "Failed"
            /\ UNCHANGED <<previous_version, sent>>
       ELSE /\ previous_version' = best_version
            /\ UNCHANGED sent
            /\ pc' = "Subscribing"
    /\ UNCHANGED <<best_version, registered, feed, stream, subscribers, ticks, imported,
                   endPolls, changes>>
    /\ UNCHANGED dispatchVars
    /\ UNCHANGED storeVars
    /\ UNCHANGED storageSubVars

\* lines 356-359: the version at the best block, previous_version, first send
SubscribeStart(version_ok, send_ok) ==
    /\ pc = "Starting"
    /\ IF ~version_ok
       THEN /\ pc' = "Failed"
            /\ UNCHANGED <<previous_version, sent>>
       ELSE /\ previous_version' = best_version
            /\ sent' = Send(best_version, send_ok, TRUE)
            /\ pc' = IF send_ok THEN "Subscribing" ELSE "Failed"
    /\ UNCHANGED <<best_version, registered, feed, stream, subscribers, ticks,
                   imported, endPolls, changes>>
    /\ UNCHANGED dispatchVars
    /\ UNCHANGED storeVars
    /\ UNCHANGED storageSubVars

\* lines 361-364: client.storage_changes_notification_stream(CODE)
CreateStream(stream_ok) ==
    /\ pc = "Subscribing"
    /\ IF stream_ok
       THEN pc' = "Watching" /\ registered' = TRUE
       ELSE pc' = "Failed" /\ UNCHANGED registered
    /\ UNCHANGED <<best_version, previous_version, feed, stream, subscribers, sent,
                   ticks, imported, endPolls, changes>>
    /\ UNCHANGED dispatchVars
    /\ UNCHANGED storeVars
    /\ UNCHANGED storageSubVars

\* the closure delivering every successfully computed version
filter_map_no_dedup(prev, version_ok, v) ==
    IF version_ok
    THEN [deliver |-> TRUE, version |-> v, previous |-> v]
    ELSE [deliver |-> FALSE, version |-> NoVersion, previous |-> prev]

\* the closure forgetting previous_version when the version cannot be computed
filter_map_err_resets(prev, version_ok, v) ==
    IF version_ok
    THEN IF prev # v
         THEN [deliver |-> TRUE, version |-> v, previous |-> v]
         ELSE [deliver |-> FALSE, version |-> v, previous |-> prev]
    ELSE [deliver |-> FALSE, version |-> NoVersion, previous |-> NoVersion]

\* the closure handing on the version it remembered, not the one it computed
filter_map_stale(prev, version_ok, v) ==
    IF version_ok
    THEN IF prev # v
         THEN [deliver |-> TRUE, version |-> prev, previous |-> v]
         ELSE [deliver |-> FALSE, version |-> v, previous |-> prev]
    ELSE [deliver |-> FALSE, version |-> NoVersion, previous |-> prev]

\* the filter_map closure (375-394): Some(v) to deliver, or None
filter_map(prev, version_ok, v) ==
    IF version_ok
    THEN IF prev # v
         THEN [deliver |-> TRUE, version |-> v, previous |-> v]
         ELSE [deliver |-> FALSE, version |-> v, previous |-> prev]
    ELSE [deliver |-> FALSE, version |-> NoVersion, previous |-> prev]

\* a turn of the loop that remembers a version only once the sink accepted it
OnNotification_previous_on_delivery(version_ok, send_ok) ==
    /\ pc = "Watching"
    /\ stream # <<>>
    /\ LET f == filter_map(previous_version, version_ok, best_version) IN
       /\ previous_version' = IF f.deliver /\ ~send_ok THEN previous_version ELSE f.previous
       /\ sent' = IF f.deliver THEN Send(f.version, send_ok, FALSE) ELSE sent
       /\ ticks' = Append(ticks, [notification |-> Head(stream), ok |-> version_ok,
                                  best |-> best_version, previous |-> previous_version,
                                  delivered |-> f.deliver /\ send_ok])
    /\ stream' = Tail(stream)
    /\ pc' = "Watching"
    /\ UNCHANGED <<best_version, registered, feed, subscribers, imported, endPolls, changes>>
    /\ UNCHANGED dispatchVars
    /\ UNCHANGED storeVars
    /\ UNCHANGED storageSubVars

\* a turn of the loop that reads the version of the block the notification names
OnNotification_notified_block(version_ok, send_ok) ==
    /\ pc = "Watching"
    /\ stream # <<>>
    /\ LET f == filter_map(previous_version, version_ok, Head(stream)) IN
       /\ previous_version' = f.previous
       /\ sent' = IF f.deliver THEN Send(f.version, send_ok, FALSE) ELSE sent
       /\ ticks' = Append(ticks, [notification |-> Head(stream), ok |-> version_ok,
                                  best |-> best_version, previous |-> previous_version,
                                  delivered |-> f.deliver /\ send_ok])
    /\ stream' = Tail(stream)
    /\ pc' = "Watching"
    /\ UNCHANGED <<best_version, registered, feed, subscribers, imported, endPolls, changes>>
    /\ UNCHANGED dispatchVars
    /\ UNCHANGED storeVars
    /\ UNCHANGED storageSubVars

\* one turn of the loop (396-402) on a notification: the closure, then the send
OnNotification(version_ok, send_ok) ==
    /\ pc = "Watching"
    /\ stream # <<>>
    /\ LET f == filter_map(previous_version, version_ok, best_version) IN
       /\ previous_version' = f.previous
       /\ sent' = IF f.deliver THEN Send(f.version, send_ok, FALSE) ELSE sent
       /\ ticks' = Append(ticks, [notification |-> Head(stream), ok |-> version_ok,
                                  best |-> best_version, previous |-> previous_version,
                                  delivered |-> f.deliver /\ send_ok])
    /\ stream' = Tail(stream)
    /\ pc' = "Watching"
    /\ UNCHANGED <<best_version, registered, feed, subscribers, imported, endPolls, changes>>
    /\ UNCHANGED dispatchVars
    /\ UNCHANGED storeVars
    /\ UNCHANGED storageSubVars

\* stream.next() yields None once the feed has ended: the loop has no break
PollEnded ==
    /\ pc = "Watching"
    /\ stream = <<>>
    /\ feed = "closed"
    /\ endPolls < MaxEndPolls
    /\ endPolls' = endPolls + 1
    /\ pc' = "Watching"
    /\ UNCHANGED <<best_version, previous_version, registered, feed, stream,
                   subscribers, sent, ticks, imported, changes>>
    /\ UNCHANGED dispatchVars
    /\ UNCHANGED storeVars
    /\ UNCHANGED storageSubVars

\* well_known_keys::CODE, the key of the runtime code
CODE == "code"

\* the key sets a client names when it subscribes to state_storage
StorageKeySets == {{CODE}, {"k1"}, {CODE, "k1"}}

\* the state_storage subscribers whose key set holds one of the keys ks
Watchers(ks) == {sub.client : sub \in {x \in storage_subs : x.keys \cap ks # {}}}

\* the node imports a best block whose runtime version is v; a block that
\* changes the runtime code is notified on the stream, and a block with
\* another version always changes the code
ImportBlock(v, code_changed) ==
    /\ imported < MaxImports
    /\ v # best_version => code_changed
    /\ imported' = imported + 1
    /\ best_version' = v
    /\ stream' = IF code_changed /\ registered /\ feed = "open"
                 THEN Append(stream, v) ELSE stream
    /\ changes' = IF v # best_version /\ pc # "Starting"
                  THEN Append(changes, v) ELSE changes
    /\ storage_blocks' =
           IF code_changed /\ Watchers({CODE}) # {}
           THEN Append(storage_blocks, [block |-> imported + 1, keys |-> {CODE},
                                        to |-> Watchers({CODE})])
           ELSE storage_blocks
    /\ UNCHANGED <<storage_subs, storage_sent>>
    /\ UNCHANGED <<pc, previous_version, registered, feed, subscribers, sent, ticks,
                   endPolls>>
    /\ UNCHANGED dispatchVars
    /\ UNCHANGED storeVars

\* the node drops the sending side of the notification stream
CloseFeed ==
    /\ registered
    /\ feed = "open"
    /\ feed' = "closed"
    /\ UNCHANGED <<pc, best_version, previous_version, registered, stream, subscribers,
                   sent, ticks, imported, endPolls, changes>>
    /\ UNCHANGED dispatchVars
    /\ UNCHANGED storeVars
    /\ UNCHANGED storageSubVars

\* a client calls state_runtimeVersion: the module adds it to the sink's clients
ClientSubscribe(c) ==
    /\ c \notin subscribers
    /\ subscribers' = subscribers \cup {c}
    /\ UNCHANGED <<pc, best_version, previous_version, registered, feed, stream, sent,
                   ticks, imported, endPolls, changes>>
    /\ UNCHANGED dispatchVars
    /\ UNCHANGED storeVars
    /\ UNCHANGED storageSubVars

\* a client calls state_unsubscribeRuntimeVersion
ClientUnsubscribe(c) ==
    /\ subscribers' = subscribers \ {c}
    /\ UNCHANGED <<pc, best_version, previous_version, registered, feed, stream, sent,
                   ticks, imported, endPolls, changes>>
    /\ UNCHANGED dispatchVars
    /\ UNCHANGED storeVars
    /\ UNCHANGED storageSubVars

InitWatch ==
    /\ pc = "Starting"
    /\ best_version \in Versions
    /\ previous_version = NoVersion
    /\ registered = FALSE
    /\ feed = "open"
    /\ stream = <<>>
    /\ subscribers = {}
    /\ sent = <<>>
    /\ ticks = <<>>
    /\ imported = 0
    /\ changes = <<>>
    /\ endPolls = 0
    /\ storage_subs = {}
    /\ storage_blocks = <<>>
    /\ storage_sent = <<>>

NextWatch ==
    \/ \E version_ok \in BOOLEAN, send_ok \in BOOLEAN : SubscribeStart(version_ok, send_ok)
    \/ \E stream_ok \in BOOLEAN : CreateStream(stream_ok)
    \/ \E version_ok \in BOOLEAN, send_ok \in BOOLEAN : OnNotification(version_ok, send_ok)
    \/ PollEnded
    \/ \E v \in Versions, code_changed \in BOOLEAN : ImportBlock(v, code_changed)
    \/ CloseFeed

NextClients ==
    \/ \E c \in Clients : ClientSubscribe(c)
    \/ \E c \in Clients : ClientUnsubscribe(c)

\* a client calls state_storage with a key set: the module adds it to the
\* clients of the sink registered at line 328; nothing in State or
\* SubscriptionSinks keeps that sink, so storage_sent is never added to
StorageSubscribe(c, ks) ==
    /\ \A sub \in storage_subs : sub.client # c
    /\ storage_subs' = storage_subs \cup {[client |-> c, keys |-> ks]}
    /\ UNCHANGED <<storage_blocks, storage_sent>>
    /\ UNCHANGED dispatchVars
    /\ UNCHANGED watchVars
    /\ UNCHANGED storeVars

\* a client calls state_unsubscribeStorage
StorageUnsubscribe(c) ==
    /\ storage_subs' = {sub \in storage_subs : sub.client # c}
    /\ UNCHANGED <<storage_blocks, storage_sent>>
    /\ UNCHANGED dispatchVars
    /\ UNCHANGED watchVars
    /\ UNCHANGED storeVars

NextStorageClients ==
    \/ \E c \in Clients, ks \in StorageKeySets : StorageSubscribe(c, ks)
    \/ \E c \in Clients : StorageUnsubscribe(c)

(***************************************************************************)
(* The backend operations the claims are about, as functions of the state *)
(* they read                                                               *)
(***************************************************************************)
RECURSIVE Zeros(_)
Zeros(n) == IF n = 0 THEN <<>> ELSE Append(Zeros(n - 1), 0)

\* StorageData: opaque bytes, told apart here by their length
Datas == {Zeros(n) : n \in 0 .. MaxLen}

\* Option<StorageData>
None == [some |-> FALSE, v |-> <<>>]
Some(d) == [some |-> TRUE, v |-> d]
OptDatas == {None} \cup {Some(d) : d \in Datas}

\* Option<u64>
NoSize == [some |-> FALSE, n |-> 0]
SomeSize(n) == [some |-> TRUE, n |-> n]

\* keys "a", "a:1", "a:2" and "b" as byte strings
TrieKeys == {<<1>>, <<1, 1>>, <<1, 2>>, <<2>>}
Tries == [TrieKeys -> OptDatas]

\* the keys a size is asked for: the stored ones and one never stored
SizeKeys == TrieKeys \cup {<<3>>}

Lookup(t, k) == IF k \in DOMAIN t THEN t[k] ELSE None

IsStrictPrefix(p, k) == Len(p) < Len(k) /\ SubSeq(k, 1, Len(p)) = p

RECURSIVE SumLen(_, _)
SumLen(t, ks) ==
    IF ks = {} THEN 0
    ELSE LET k == CHOOSE x \in ks : TRUE IN Len(t[k].v) + SumLen(t, ks \ {k})

\* a storage_size that sums the family even when the key itself is stored
storage_size_always_sums(t, key) ==
    LET family == {k \in DOMAIN t : t[k].some /\ IsStrictPrefix(key, k)} IN
    IF family # {} THEN SomeSize(SumLen(t, family))
    ELSE IF Lookup(t, key).some THEN SomeSize(Len(Lookup(t, key).v))
    ELSE NoSize

\* StateBackend::storage_size: the entry at key, else the entries under it
storage_size(t, key) ==
    IF Lookup(t, key).some
    THEN SomeSize(Len(Lookup(t, key).v))
    ELSE LET family == {k \in DOMAIN t : t[k].some /\ IsStrictPrefix(key, k)} IN
         IF family = {} THEN NoSize ELSE SomeSize(SumLen(t, family))

StorageSize(key) ==
    /\ last_op' = [name |-> "storage_size", key |-> key, out |-> storage_size(trie, key)]
    /\ UNCHANGED <<chain, trie>>
    /\ UNCHANGED dispatchVars
    /\ UNCHANGED watchVars
    /\ UNCHANGED storageSubVars

\* what ChildStateBackend::storage returns
ChildStorageResults ==
    {[tag |-> "Err", err |-> e, v |-> None] : e \in BackendOutcomes \ {"Ok"}}
        \cup {[tag |-> "Ok", err |-> "none", v |-> o] : o \in OptDatas}

\* a default storage_size that reports an absent entry as an empty one
child_storage_size_absent_is_empty(r) ==
    IF r.tag = "Err"
    THEN [tag |-> "Err", err |-> r.err, size |-> NoSize]
    ELSE [tag |-> "Ok", err |-> "none", size |-> SomeSize(Len(r.v.v))]

\* ChildStateBackend::storage_size (default): storage(..).map(|x| x.map(len))
child_storage_size(r) ==
    IF r.tag = "Err"
    THEN [tag |-> "Err", err |-> r.err, size |-> NoSize]
    ELSE [tag |-> "Ok", err |-> "none",
          size |-> IF r.v.some THEN SomeSize(Len(r.v.v)) ELSE NoSize]

ChildStorageSize(block, storage_key, key, r) ==
    /\ last_op' = [name |-> "child_storage_size",
              args |-> [block |-> block, storage_key |-> storage_key, key |-> key],
              storage |-> r,
              out |-> child_storage_size(r),
              calls |-> <<Invoke("child_storage",
                                 [block |-> block, storage_key |-> storage_key,
                                  key |-> key])>>]
    /\ UNCHANGED <<chain, trie>>
    /\ UNCHANGED dispatchVars
    /\ UNCHANGED watchVars
    /\ UNCHANGED storageSubVars

NoOp == [name |-> "none"]

NoTrie == [k \in TrieKeys |-> None]

Genesis == [k \in Keys |-> "None"]

\* a node whose backend has run nothing yet
InitStore ==
    /\ chain = <<Genesis>>
    /\ trie = NoTrie
    /\ last_op = NoOp

InitSize ==
    /\ InitDispatch /\ deny_unsafe = "No" /\ backend = "full"
    /\ InitWatch /\ best_version = 0
    /\ chain = <<Genesis>>
    /\ trie \in Tries
    /\ last_op = NoOp

NextSize ==
    \/ \E key \in SizeKeys : StorageSize(key)
    \/ \E block \in OptBlocks, key \in Keys, r \in ChildStorageResults :
          ChildStorageSize(block, "c1", key, r)

\* storage_size and the child default storage_size over every state of a block
SpecSize == InitSize /\ [][NextSize]_vars

(***************************************************************************)
(* query_storage over a chain of blocks; a block is named by its height    *)
(***************************************************************************)
\* the stored values of the chain: StorageData "a" and "b", or no entry
ChainValues == {"None", "a", "b"}
BlockStates == [Keys -> ChainValues]
Chains == UNION {[1 .. n -> BlockStates] : n \in 1 .. MaxChain}

\* the key lists a query names: every list of distinct keys
KeyLists == {ks \in UNION {[1 .. n -> Keys] : n \in 0 .. Cardinality(Keys)} :
                \A i \in DOMAIN ks : \A j \in DOMAIN ks : i # j => ks[i] # ks[j]}

\* to: Option<Block::Hash>, 0 for None, which is the best block
ResolveTo(c, to) == IF to = 0 THEN Len(c) ELSE to

\* the (key, value) pairs of the keys whose value at block b is not last[key]
RECURSIVE Diff(_, _, _, _)
Diff(c, b, keys, last) ==
    IF keys = <<>> THEN <<>>
    ELSE LET k == Head(keys) IN
         (IF c[b][k] # last[k] THEN <<[key |-> k, value |-> c[b][k]]>> ELSE <<>>)
             \o Diff(c, b, Tail(keys), last)

\* the walk over blocks b .. to, last holding the values seen so far
RECURSIVE Walk(_, _, _, _, _)
Walk(c, b, to, keys, last) ==
    IF b > to THEN <<>>
    ELSE LET d == Diff(c, b, keys, last)
             seen == [k \in DOMAIN last |->
                        IF \E i \in DOMAIN d : d[i].key = k THEN c[b][k] ELSE last[k]]
         IN <<[block |-> b, changes |-> d]>> \o Walk(c, b + 1, to, keys, seen)

\* a walk that compares every block with the block the query starts from
RECURSIVE Walk_against_from(_, _, _, _, _)
Walk_against_from(c, b, to, keys, last) ==
    IF b > to THEN <<>>
    ELSE <<[block |-> b, changes |-> Diff(c, b, keys, last)]>>
             \o Walk_against_from(c, b + 1, to, keys, last)

\* a query_storage that diffs against the first block throughout
query_storage_against_from(c, from, to, keys) ==
    LET snapshot == [i \in 1 .. Len(keys) |-> [key |-> keys[i], value |-> c[from][keys[i]]]]
    IN <<[block |-> from, changes |-> snapshot]>>
           \o Walk_against_from(c, from + 1, ResolveTo(c, to), keys, c[from])

\* StateBackend::query_storage: the snapshot at from, then one diff per block
query_storage(c, from, to, keys) ==
    LET snapshot == [i \in 1 .. Len(keys) |-> [key |-> keys[i], value |-> c[from][keys[i]]]]
    IN <<[block |-> from, changes |-> snapshot]>>
           \o Walk(c, from + 1, ResolveTo(c, to), keys, c[from])

QueryStorage(from, to, keys) ==
    /\ from \in 1 .. Len(chain)
    /\ to = 0 \/ to \in from .. Len(chain)
    /\ last_op' = [name |-> "query_storage", from |-> from, to |-> to, keys |-> keys,
                   out |-> query_storage(chain, from, to, keys)]
    /\ UNCHANGED <<chain, trie>>
    /\ UNCHANGED dispatchVars
    /\ UNCHANGED watchVars
    /\ UNCHANGED storageSubVars

InitQuery ==
    /\ InitDispatch /\ deny_unsafe = "No" /\ backend = "full"
    /\ InitWatch /\ best_version = 0
    /\ chain \in Chains
    /\ trie = NoTrie
    /\ last_op = NoOp

\* one query per behaviour: query_storage reads the chain and changes nothing
NextQuery ==
    /\ last_op = NoOp
    /\ \E from \in 1 .. MaxChain, to \in 0 .. MaxChain, keys \in KeyLists :
           QueryStorage(from, to, keys)

\* query_storage over every chain of up to MaxChain blocks
SpecQuery == InitQuery /\ [][NextQuery]_vars

Init == InitDispatch /\ InitWatch /\ InitStore

\* a service whose watch task is not looked at: its best block has version 0
InitRequests == Init /\ best_version = 0

\* a service that is sent no request: either policy and backend do
InitSubscription == Init /\ deny_unsafe = "No" /\ backend = "full"

\* the dispatch surface alone
SpecDispatch == InitRequests /\ [][NextDispatch]_vars

\* the watch task and the node feeding it
SpecWatch == InitSubscription /\ [][NextWatch]_vars

\* the watch task, the node and the clients of the subscription
SpecSubscription == InitSubscription /\ [][NextWatch \/ NextClients]_vars

\* the watch task, the node and the clients of state_storage; every step
\* that can be taken is taken in the end
SpecStorage ==
    /\ InitSubscription
    /\ [][NextWatch \/ NextStorageClients]_vars
    /\ WF_vars(NextWatch \/ NextStorageClients)

(***************************************************************************)
(* Properties                                                              *)
(***************************************************************************)
Gated == {"state_getPairs", "state_getRuntimeVersion", "state_queryStorage",
          "state_queryStorageAt", "state_getReadProof", "state_traceBlock"}

\* the events the sink accepted, in order
Delivered == SelectSeq(sent, LAMBDA e : e.ok)

DeliveredVersions == [i \in 1 .. Len(Delivered) |-> Delivered[i].version]

LastTick == ticks[Len(ticks)]

\* C1: a safety-gated method called with well-formed parameters while the
\* policy denies unsafe calls is answered with Unsafe and invokes no backend
\* operation.
C1_GatedDenied ==
    (request.method \in Gated /\ request.params.wf /\ deny_unsafe = "Yes")
        => (response = UnsafeRpcError /\ calls = NoCall)

C1_Witness ==
    /\ request.method = "state_getPairs"
    /\ request.params.wf
    /\ deny_unsafe = "Yes"
    /\ response.kind = "Unsafe"

\* C2: a state_getKeysPaged request with count > 1000 is answered with
\* InvalidCount{value: count, max: 1000} and invokes no backend operation.
C2_CountAboveMaxRejected ==
    (/\ request.method = "state_getKeysPaged"
     /\ request.params.wf
     /\ request.params.count > STORAGE_KEYS_PAGED_MAX_COUNT)
        => (/\ response = InvalidCount(request.params.count, 1000)
            /\ calls = NoCall)

C2_Witness ==
    /\ request.method = "state_getKeysPaged"
    /\ request.params.wf
    /\ request.params.count = STORAGE_KEYS_PAGED_MAX_COUNT + 2
    /\ response.kind = "InvalidCount"

\* C3: the page bound is inclusive: every well-formed state_getKeysPaged
\* request with count <= 1000 invokes backend.storage_keys_paged exactly once
\* with the request's block, prefix, count and start_key and is answered with
\* that operation's result, and count = 1001 is answered with
\* InvalidCount{value: 1001, max: 1000}.
C3_BoundInclusive ==
    (request.method = "state_getKeysPaged" /\ request.params.wf) =>
        /\ request.params.count <= 1000 =>
            /\ calls = <<Invoke("storage_keys_paged",
                                [block |-> request.params.block,
                                 prefix |-> request.params.prefix,
                                 count |-> request.params.count,
                                 start_key |-> request.params.start_key])>>
            /\ response.kind \in {"Ok", "Failed"}
            /\ response.of = "storage_keys_paged"
        /\ request.params.count = 1001 =>
            /\ response = InvalidCount(1001, 1000)
            /\ calls = NoCall

C3_Witness ==
    /\ request.method = "state_getKeysPaged"
    /\ request.params.wf
    /\ request.params.count = 1000
    /\ Len(calls) = 1
    /\ calls[1].args.count = 1000
    /\ response.kind = "Ok"

\* C4: on every method, a request whose parameters do not decode is answered
\* with InvalidParams and invokes no backend operation (taken where the
\* safety policy lets the call through, so that the answer is not Unsafe).
C4_MalformedRejected ==
    (request.method # "none" /\ ~request.params.wf /\ deny_unsafe = "No")
        => (response = InvalidParams /\ calls = NoCall)

\* C5: no two consecutive events delivered to the subscription carry the
\* same runtime version.
C5_NoConsecutiveDuplicates ==
    \A i \in 1 .. Len(Delivered) - 1 : Delivered[i].version # Delivered[i + 1].version

\* C6 as claimed: once the watch has consumed every notification, the
\* versions delivered are the first version followed by every version the
\* best block took since, each once and in order.
C6_EveryTransitionOnce ==
    (pc = "Watching" /\ stream = <<>>)
        => DeliveredVersions = <<sent[1].version>> \o changes

\* C6 as amended: every processed notification at which the version of the
\* best block is computed and differs from previous_version hands exactly one
\* event with that version to the sink, any other notification hands none,
\* and no two consecutive events handed to the sink carry the same version.
C6_DetectedTransitionOnce ==
    /\ [](\A i \in 1 .. Len(sent) - 1 : sent[i].version # sent[i + 1].version)
    /\ [][Len(ticks') = Len(ticks) + 1 =>
            LET t == ticks'[Len(ticks')] IN
            IF t.ok /\ t.best # t.previous
            THEN /\ Len(sent') = Len(sent) + 1
                 /\ SubSeq(sent', 1, Len(sent)) = sent
                 /\ sent'[Len(sent')].version = t.best
            ELSE sent' = sent]_vars

C6_Witness ==
    /\ Len(ticks) >= 2
    /\ ticks[1].ok /\ ticks[1].best # ticks[1].previous
    /\ ticks[2].ok /\ ticks[2].best = ticks[2].previous
    /\ Len(sent) = 2

\* C7: every client of state_runtimeVersion receives, as its first event, the
\* version computed at the start of the watch, and that version is
\* previous_version until a notification is processed.
C7_FirstEventIsInitial ==
    /\ \A c \in Clients : \A i \in 1 .. Len(sent) :
          c \in sent[i].to => \E j \in 1 .. i : sent[j].initial /\ c \in sent[j].to
    /\ (pc \in {"Subscribing", "Watching"} /\ ticks = <<>>)
          => previous_version = sent[1].version

\* C8: once the watch has seen the notification feed end, the subscribe
\* task has completed.
C8_FeedEndTerminates ==
    endPolls > 0 => pc = "Terminated"

C10_SendFailureKeepsWatch ==
    (\E i \in 1 .. Len(sent) : ~sent[i].ok) => pc \in {"Subscribing", "Watching"}

C12_StorageHashLooksUpHash ==
    (request.method = "state_getStorageHash" /\ request.params.wf)
        => /\ calls = <<Invoke("storage_hash", [block |-> request.params.block,
                                                key |-> request.params.key])>>
           /\ response.of = "storage_hash"

\* C13 as stated: when the policy denies unsafe calls, neither state_getKeys
\* nor state_getPairs invokes the backend.
C13_EnumerationsGated ==
    (deny_unsafe = "Yes" /\ request.method \in {"state_getKeys", "state_getPairs"})
        => calls = NoCall

\* C13: when the policy denies unsafe calls, state_getPairs is answered with
\* Unsafe and never invokes the backend; state_getKeys is not gated: a
\* well-formed state_getKeys request invokes storage_keys under either policy.
C13_PairsGatedKeysOpen ==
    /\ (deny_unsafe = "Yes" /\ request.method = "state_getPairs")
           => (calls = NoCall /\ response = UnsafeRpcError)
    /\ (request.method = "state_getKeys" /\ request.params.wf)
           => /\ calls = <<Invoke("storage_keys", [block |-> request.params.block,
                                                   prefix |-> request.params.key])>>
              /\ response.kind \in {"Ok", "Failed"}

C13_Witness ==
    /\ deny_unsafe = "Yes"
    /\ request.method = "state_getPairs"
    /\ response = UnsafeRpcError
    /\ calls = NoCall

\* the sends after the initial one, in order
LaterSends == SelectSeq(sent, LAMBDA e : ~e.initial)

\* the notifications whose computed version differed from previous_version
DetectedTicks == SelectSeq(ticks, LAMBDA t : t.ok /\ t.best # t.previous)

\* C14: the versions sent after the initial event are, in order, exactly the
\* versions computed for the successive notifications that differed from
\* previous_version, each accepted by the sink or not as that tick records.
C14_DeliveryFollowsFeedOrder ==
    /\ Len(LaterSends) = Len(DetectedTicks)
    /\ \A i \in 1 .. Len(DetectedTicks) :
           /\ LaterSends[i].version = DetectedTicks[i].best
           /\ LaterSends[i].ok = DetectedTicks[i].delivered

C14_Witness ==
    /\ Len(DetectedTicks) = 2
    /\ DetectedTicks[1].delivered /\ DetectedTicks[2].delivered
    /\ DetectedTicks[1].best # DetectedTicks[2].best
    /\ Len(Delivered) = 3

\* C15: handling a request, whatever its outcome, leaves the backend instance
\* and the safety policy as they were, and whether the request is answered with
\* Unsafe depends only on its method and on that policy.
C15_RequestLeavesServiceUnchanged ==
    [][/\ backend' = backend
       /\ deny_unsafe' = deny_unsafe
       /\ (response'.kind = "Unsafe")
              <=> (request'.method \in Gated /\ deny_unsafe = "Yes")]_vars

C15_Witness ==
    /\ response.kind = "Failed"
    /\ request.method = "state_getStorage"
    /\ deny_unsafe = "Yes"
    /\ backend = "light"

\* C16: the default child storage_size makes exactly one storage call, with
\* its own arguments, and returns Some(length of the value) when the entry
\* exists, None when it does not, and the storage call's error when it fails.
C16_ChildSizeIsMappedStorage ==
    last_op.name = "child_storage_size"
        => /\ last_op.calls = <<Invoke("child_storage", last_op.args)>>
           /\ last_op.storage.tag = "Err"
                  => (last_op.out.tag = "Err" /\ last_op.out.err = last_op.storage.err)
           /\ (last_op.storage.tag = "Ok" /\ last_op.storage.v.some)
                  => /\ last_op.out.tag = "Ok"
                     /\ last_op.out.size = SomeSize(Len(last_op.storage.v.v))
           /\ (last_op.storage.tag = "Ok" /\ ~last_op.storage.v.some)
                  => (last_op.out.tag = "Ok" /\ last_op.out.size = NoSize)

C16_Witness ==
    /\ last_op.name = "child_storage_size"
    /\ last_op.storage = [tag |-> "Ok", err |-> "none", v |-> Some(Zeros(2))]
    /\ last_op.out.size = SomeSize(2)

\* the keys a change set names
ChangedKeys(cs) == {cs.changes[j].key : j \in 1 .. Len(cs.changes)}

\* the elements of a sequence
Range(q) == {q[j] : j \in 1 .. Len(q)}

\* C17: query_storage(from, to, keys) returns one change set per block from
\* from up to and including to; the first is the snapshot of every requested
\* key at from, present or absent; each later one names exactly the requested
\* keys whose value at its block differs from the value at the block before,
\* with the new value; a key that is constant over the range is in none of the
\* later ones.
C17_SnapshotThenDiffs ==
    last_op.name = "query_storage"
        => LET out == last_op.out
               from == last_op.from
               upto == ResolveTo(chain, last_op.to)
               keys == last_op.keys
           IN /\ Len(out) = upto - from + 1
              /\ \A i \in 1 .. Len(out) : out[i].block = from + i - 1
              /\ Len(out[1].changes) = Len(keys)
              /\ \A j \in 1 .. Len(keys) :
                     out[1].changes[j] = [key |-> keys[j], value |-> chain[from][keys[j]]]
              /\ \A i \in 2 .. Len(out) :
                     LET b == from + i - 1 IN
                     /\ ChangedKeys(out[i]) = {k \in Range(keys) : chain[b][k] # chain[b - 1][k]}
                     /\ Len(out[i].changes) = Cardinality(ChangedKeys(out[i]))
                     /\ \A j \in 1 .. Len(out[i].changes) :
                            out[i].changes[j].value = chain[b][out[i].changes[j].key]
              /\ \A k \in Range(keys) :
                     (\A b \in from .. upto : chain[b][k] = chain[from][k])
                         => \A i \in 2 .. Len(out) : k \notin ChangedKeys(out[i])

C17_Witness ==
    /\ last_op.name = "query_storage"
    /\ last_op.from = 1 /\ last_op.to = 3
    /\ last_op.keys = <<"k1", "k2">>
    /\ chain[1]["k1"] = "a" /\ chain[2]["k1"] = "None" /\ chain[3]["k1"] = "a"
    /\ chain[1]["k2"] = "b" /\ chain[2]["k2"] = "b" /\ chain[3]["k2"] = "b"
    /\ Len(last_op.out) = 3
    /\ last_op.out[3].changes = <<[key |-> "k1", value |-> "a"]>>

\* the entries of the trie whose keys have key as a strict prefix
Family(key) == {k \in DOMAIN trie : trie[k].some /\ IsStrictPrefix(key, k)}

\* C18: storage_size(key) is the length of the entry stored at key when there
\* is one; otherwise the summed length of the entries whose keys have key as a
\* strict prefix when there are any; otherwise None.
C18_ExactElsePrefixSum ==
    last_op.name = "storage_size"
        => LET key == last_op.key IN
           /\ Lookup(trie, key).some
                  => last_op.out = SomeSize(Len(Lookup(trie, key).v))
           /\ (~Lookup(trie, key).some /\ Family(key) # {})
                  => /\ last_op.out.some
                     /\ last_op.out.n = SumLen(trie, Family(key))
           /\ (~Lookup(trie, key).some /\ Family(key) = {})
                  => last_op.out = NoSize

C18_Witness ==
    /\ last_op.name = "storage_size"
    /\ last_op.key = <<1>>
    /\ ~trie[<<1>>].some
    /\ trie[<<1, 1>>] = Some(Zeros(2))
    /\ trie[<<1, 2>>] = Some(Zeros(3))
    /\ last_op.out = SomeSize(5)

\* the methods the interface table classes as not unsafe
NotUnsafe == {"state_call", "state_getKeys", "state_getKeysPaged", "state_getStorage",
              "state_getStorageHash", "state_getStorageSize", "state_getMetadata",
              "childstate_getStorage", "childstate_getKeys",
              "childstate_getStorageHash", "childstate_getStorageSize"}

\* C19 as stated: a method classed as not unsafe is never answered with
\* Unsafe, and every well-formed request to it is dispatched to the backend.
C19_NotUnsafeDispatched ==
    request.method \in NotUnsafe
        => /\ response.kind # "Unsafe"
           /\ request.params.wf => Len(calls) = 1

\* C19: a method classed as not unsafe is never answered with Unsafe, and
\* under either policy a well-formed request to it is dispatched to the
\* backend, for state_getKeysPaged when its count is within the page bound.
C19_NotUnsafeDispatchedWithinBound ==
    request.method \in NotUnsafe
        => /\ response.kind # "Unsafe"
           /\ (/\ request.params.wf
               /\ request.method = "state_getKeysPaged"
                      => request.params.count <= STORAGE_KEYS_PAGED_MAX_COUNT)
                  => (Len(calls) = 1 /\ response.kind \in {"Ok", "Failed"})

C19_Witness ==
    /\ request.method = "childstate_getKeys"
    /\ request.params.wf
    /\ deny_unsafe = "Yes"
    /\ Len(calls) = 1
    /\ response.kind = "Ok"

\* C20: when the policy denies unsafe calls, a gated request whose parameters
\* do not decode is answered with Unsafe, not InvalidParams, and nothing of it
\* reaches the backend.
C20_GateBeforeDecoding ==
    (request.method \in Gated /\ deny_unsafe = "Yes" /\ ~request.params.wf)
        => (response = UnsafeRpcError /\ calls = NoCall)

C20_Witness ==
    /\ request.method = "state_queryStorage"
    /\ ~request.params.wf
    /\ deny_unsafe = "Yes"
    /\ response.kind = "Unsafe"

\* C21: previous_version is the version handed to the sink last, whether the
\* sink accepted it or not: a notification whose computed version differs from
\* previous_version sets previous_version to it and sends it once, whatever the
\* send returns, and a notification whose computed version is the one sent last
\* sends nothing, also when that last send failed.
C21_PreviousIsLastSent ==
    /\ [](sent # <<>> => previous_version = sent[Len(sent)].version)
    /\ [][(pc = "Watching" /\ ticks' # ticks)
             => LET t == ticks'[Len(ticks')] IN
                /\ (t.ok /\ t.best # previous_version)
                       => /\ previous_version' = t.best
                          /\ Len(sent') = Len(sent) + 1
                          /\ sent'[Len(sent')].version = t.best
                /\ (t.ok /\ t.best = sent[Len(sent)].version)
                       => (sent' = sent /\ previous_version' = previous_version)]_vars

C21_Witness ==
    /\ Len(ticks) = 2
    /\ ticks[1].ok /\ ticks[1].best # ticks[1].previous /\ ~ticks[1].delivered
    /\ ticks[2].ok /\ ticks[2].best = ticks[1].best
    /\ Len(sent) = 2 /\ ~sent[2].ok
    /\ previous_version = ticks[1].best

\* C22: a notification is handled by the runtime version of the best block at
\* the moment it is processed, not by the block it names: the version compared
\* with previous_version, and the version sent if they differ, is best_version.
C22_BestBlockAtProcessing ==
    [][(pc = "Watching" /\ ticks' # ticks)
          => LET t == ticks'[Len(ticks')] IN
             /\ t.best = best_version
             /\ (t.ok /\ best_version # previous_version)
                    => (sent' # sent /\ sent'[Len(sent')].version = best_version)
             /\ (t.ok /\ best_version = previous_version) => sent' = sent]_vars

C22_Witness ==
    \E i \in 1 .. Len(ticks) :
        /\ ticks[i].notification # ticks[i].best
        /\ ticks[i].delivered
        /\ sent[Len(sent)].version = ticks[i].best
        /\ sent[Len(sent)].version # ticks[i].notification

\* C23: a start-up failure ends the watch before Watching. When the version
\* at the best block cannot be computed the watch fails having sent nothing;
\* when the notification stream cannot be created it fails after exactly the
\* one initial send, which the sink accepted; a failed watch never registers a
\* stream, never processes a notification and never sends again.
C23_StartupFailuresEndWatch ==
    /\ [](pc = "Failed" => (ticks = <<>> /\ ~registered /\ Len(sent) <= 1))
    /\ [][/\ (pc = "Starting" /\ pc' # pc /\ sent' = sent)
                 => (pc' = "Failed" /\ sent' = <<>>)
          /\ (pc = "Subscribing" /\ pc' = "Failed")
                 => /\ sent' = sent
                    /\ Len(sent) = 1
                    /\ sent[1].initial /\ sent[1].ok
          /\ pc = "Failed"
                 => (pc' = "Failed" /\ sent' = sent /\ ticks' = ticks)]_vars

C23_Witness ==
    /\ pc = "Failed"
    /\ Len(sent) = 1 /\ sent[1].ok
    /\ imported > 0
    /\ ticks = <<>>

\* a request the admission steps let through: it decodes, its count is within
\* the page bound, and the safety policy permits its method
Admitted ==
    /\ request.method # "none"
    /\ request.params.wf
    /\ request.method = "state_getKeysPaged"
           => request.params.count <= STORAGE_KEYS_PAGED_MAX_COUNT
    /\ request.method \in Gated => deny_unsafe = "No"

\* C24: an admitted request invokes one backend operation, once, and is
\* answered with that operation's result or with that operation's error as a
\* call failure; after a backend failure the service still takes a request
\* and serves it.
C24_OneBackendCallPerRequest ==
    /\ Admitted
           => /\ Len(calls) = 1
              /\ response.kind \in {"Ok", "Failed"}
              /\ response.of = calls[1].op
              /\ response.kind = "Failed" <=> response.err \in BackendOutcomes \ {"Ok"}
              /\ response.kind = "Ok" <=> response.err = "none"
    /\ response.kind = "Failed"
           => ENABLED (NextDispatch /\ response'.kind = "Ok")

C24_Witness ==
    /\ Admitted
    /\ request.method = "state_traceBlock"
    /\ response = to_jsonrpsee_call_error("trace_block", "UnknownBlock")
    /\ Len(calls) = 1

\* C25: a client subscribed to state_storage for a key set is sent, in the
\* end, a StorageChangeSet for each block that changed one of its keys while it
\* was subscribed.
C25_StorageChangeSetPerBlock ==
    \A b \in 1 .. MaxImports : \A c \in Clients :
        (\E i \in 1 .. Len(storage_blocks) :
             storage_blocks[i].block = b /\ c \in storage_blocks[i].to)
            ~> (\E j \in 1 .. Len(storage_sent) :
                    storage_sent[j].block = b /\ c \in storage_sent[j].to)

====
